---- MODULE Spec2Model ----
(***************************************************************************)
(* Model of StockAnalyzer (src/app.py): fetch_data, add_technical_         *)
(* indicators, process_all_stocks and create_summary_table.                *)
(*                                                                         *)
(* A DataFrame is a record: its column names, its close and volume         *)
(* columns, and the two derived columns whose values the properties talk   *)
(* about (volume_sma_20, volume_above_avg).  The values of the other       *)
(* indicator columns are not modelled, only their presence.  Floating      *)
(* point results are exact rationals [num, den]; den = 0 is NaN.           *)
(***************************************************************************)
EXTENDS Integers, Sequences, FiniteSets, TLC

\* ---------------------------------------------------------------- bounds
MaxSyms == 3
MaxCloseLen == 4
MaxRows == 27
TailLen == 2

\* ------------------------------------------------------ program constants
BBandsLength == 20
MacdSlow == 26
VolSmaLength == 20
NSteps == 17

Symbols == {"AAPL", "MSFT"}
Prices == {95, 100, 105, 110}
Vols == {1, 2, 3}
BaseVol == 2
BatchRows == {1, BBandsLength, MacdSlow}

\* ------------------------------------------------------------- rationals
Rat(n, d) == [num |-> n, den |-> d]
NaN == Rat(0, 0)
IsNaN(q) == q.den = 0
RatEq(a, b) == a.den # 0 /\ b.den # 0 /\ a.num * b.den = b.num * a.den
\* v > q as the float comparison evaluates it: anything compared to NaN is False
IntGtRat(v, q) == q.den # 0 /\ v * q.den > q.num

\* ------------------------------------------------------------ DataFrames
RawColumns == {"Open", "High", "Low", "Close", "Volume"}
Lower(c) ==
  CASE c = "Open" -> "open" [] c = "High" -> "high" [] c = "Low" -> "low"
    [] c = "Close" -> "close" [] c = "Volume" -> "volume" [] OTHER -> c

\* what stock.history returns: n rows, the provider's column names
History(n, close, volume, no) ==
  [ symbol |-> "", fetch_no |-> no, columns |-> RawColumns,
    close |-> close, volume |-> volume,
    volume_sma_20 |-> << >>, volume_above_avg |-> << >> ]

NRows(df) == Len(df.close)
Empty(df) == NRows(df) = 0

\* a flat volume series ending in a free tail; close follows volume
VolSeries(n, tail) ==
  [k \in 1..n |-> IF k > n - TailLen THEN tail[k - (n - TailLen)] ELSE BaseVol]
CloseSeries(n, tail) ==
  [k \in 1..n |-> 100 + 5 * (VolSeries(n, tail)[k] - BaseVol)]
Tails == [1..TailLen -> Vols]

\* lines 39-41: lower-case the column names, add the symbol column
Prepare(df, symbol) ==
  [df EXCEPT !.columns = {Lower(c) : c \in df.columns} \cup {"symbol"},
             !.symbol = symbol]

\* ------------------------------------------------------ Indicator Engine
RECURSIVE SumRange(_, _, _)
SumRange(s, lo, hi) == IF lo > hi THEN 0 ELSE s[hi] + SumRange(s, lo, hi - 1)

\* ta.sma: rolling mean, NaN until the window is filled
Sma(s, length) ==
  [k \in 1..Len(s) |->
     IF k < length THEN NaN ELSE Rat(SumRange(s, k - length + 1, k), length)]

PyBool(b) == IF b THEN "True" ELSE "False"

\* line 91: element-wise volume > volume_sma_20
VolumeAboveAvg(volume, sma) ==
  [k \in 1..Len(volume) |-> PyBool(IntGtRat(volume[k], sma[k]))]

\* the columns each statement of lines 64-91 adds, in order
StepCols ==
  << {"rsi"},
     {"BBL_20_2.0", "BBM_20_2.0", "BBU_20_2.0", "BBB_20_2.0", "BBP_20_2.0"},
     {"MACD_12_26_9", "MACDh_12_26_9", "MACDs_12_26_9"},
     {"sma_20"}, {"sma_50"}, {"sma_200"}, {"ema_12"}, {"ema_26"}, {"atr"},
     {"date"}, {"year"}, {"month"}, {"day"}, {"day_of_week"},
     {"daily_return"}, {"volume_sma_20"}, {"volume_above_avg"} >>
DerivedColumns == UNION {StepCols[k] : k \in 1..NSteps}
\* statements of the form df = df.join(...): they rebind df to a new table
JoinSteps == {2, 3}

\* the statement that raises for a series of n rows: ta.bbands / ta.macd
\* return None below their window and df.join(None) raises; fault is a
\* statement where the library raises for another reason (0: none)
LengthFault(n) ==
  IF n < BBandsLength THEN 2 ELSE IF n < MacdSlow THEN 3 ELSE 0
Min2(a, b) == IF a = 0 THEN b ELSE IF b = 0 THEN a ELSE IF a < b THEN a ELSE b
FailStep(n, fault) == Min2(LengthFault(n), fault)

\* the effect of statement k on the table bound to the local name df
ApplyStep(df, k) ==
  LET d1 == [df EXCEPT !.columns = @ \cup StepCols[k]] IN
  IF k = 16 THEN [d1 EXCEPT !.volume_sma_20 = Sma(df.volume, VolSmaLength)]
  ELSE IF k = 17
       THEN [d1 EXCEPT !.volume_above_avg =
                          VolumeAboveAvg(df.volume, df.volume_sma_20)]
       ELSE d1

\* item assignment writes into the caller's table while df is still bound
\* to it; after the first join df is a new table and the caller's is left alone
AssignInPlace(st, k) ==
  LET d == ApplyStep(st.df, k) IN
  [st EXCEPT !.df = d, !.arg = IF st.aliased THEN d ELSE @]

JoinRebind(st, k) ==
  [st EXCEPT !.df = ApplyStep(st.df, k), !.aliased = FALSE]

RECURSIVE RunSteps(_, _, _)
RunSteps(k, st, fail) ==
  IF k > NSteps THEN st
  ELSE IF k = fail THEN [st EXCEPT !.raised = TRUE]
  ELSE RunSteps(k + 1,
                IF k \in JoinSteps THEN JoinRebind(st, k)
                                   ELSE AssignInPlace(st, k),
                fail)

\* add_technical_indicators: ret is the returned table (line 93 or 97),
\* arg the caller's table after the call, raised whether the except branch ran
add_technical_indicators(df, fault) ==
  LET st == RunSteps(1, [df |-> df, arg |-> df, aliased |-> TRUE,
                         raised |-> FALSE],
                     FailStep(NRows(df), fault))
  IN [ret |-> st.df, arg |-> st.arg, raised |-> st.raised]

\* ---------------------------------------------------- Summary Aggregator
RECURSIVE SeqMax(_, _)
SeqMax(s, k) ==
  IF k = 1 THEN s[1]
  ELSE LET m == SeqMax(s, k - 1) IN IF s[k] > m THEN s[k] ELSE m
RECURSIVE SeqMin(_, _)
SeqMin(s, k) ==
  IF k = 1 THEN s[1]
  ELSE LET m == SeqMin(s, k - 1) IN IF s[k] < m THEN s[k] ELSE m

\* DailyChangePct with the guard len(df) > 2
DailyChangePct_threeRows(df) ==
  LET n == NRows(df) IN
  IF n > 2 THEN Rat((df.close[n] - df.close[n - 1]) * 100, df.close[n - 1])
  ELSE Rat(0, 1)

\* lines 142-144
DailyChangePct(df) ==
  LET n == NRows(df) IN
  IF n > 1 THEN Rat((df.close[n] - df.close[n - 1]) * 100, df.close[n - 1])
  ELSE Rat(0, 1)

\* Week52High over the rows before the last one
Week52High_skipLast(df) ==
  IF NRows(df) > 1 THEN SeqMax(df.close, NRows(df) - 1) ELSE df.close[1]

\* lines 146-147
Week52High(df) == SeqMax(df.close, NRows(df))
Week52Low(df) == SeqMin(df.close, NRows(df))

\* lines 149-152
PctFrom(last, extremum) == Rat((last - extremum) * 100, extremum)

\* lines 140-164: the row appended for one symbol
SummaryRow(symbol, df) ==
  LET n == NRows(df)
      latest == n
  IN [ symbol |-> symbol,
       last_price |-> df.close[latest],
       daily_change_pct |-> DailyChangePct(df),
       volume |-> df.volume[latest],
       week_52_high |-> Week52High(df),
       week_52_low |-> Week52Low(df),
       pct_from_high |-> PctFrom(df.close[latest], Week52High(df)),
       pct_from_low |-> PctFrom(df.close[latest], Week52Low(df)),
       date |-> latest ]

\* lines 134-164: one row per entry of stock_data that is not empty
RECURSIVE SummaryRows(_, _)
SummaryRows(sd, k) ==
  IF k = 0 THEN << >>
  ELSE LET rest == SummaryRows(sd, k - 1) IN
       IF Empty(sd[k].df) THEN rest
       ELSE Append(rest, SummaryRow(sd[k].key, sd[k].df))

\* --------------------------------------------------- dict and DataFrame ops
\* a dict is a sequence of [key, df] in insertion order; assigning to a key
\* that is present replaces its value and keeps its position
KeyPos(d, k) ==
  IF \E p \in 1..Len(d) : d[p].key = k
  THEN CHOOSE p \in 1..Len(d) : d[p].key = k
  ELSE 0
\* DictSet that keeps the value of a key that is present
DictSet_first(d, k, v) ==
  IF KeyPos(d, k) = 0 THEN Append(d, [key |-> k, df |-> v]) ELSE d

DictSet(d, k, v) ==
  IF KeyPos(d, k) = 0 THEN Append(d, [key |-> k, df |-> v])
  ELSE [d EXCEPT ![KeyPos(d, k)].df = v]
Keys(d) == {d[p].key : p \in 1..Len(d)}

\* the rows of a table, as they appear in a concatenation
Rows(df) ==
  [k \in 1..NRows(df) |->
     [ symbol |-> df.symbol, fetch_no |-> df.fetch_no, idx |-> k,
       close |-> df.close[k], volume |-> df.volume[k],
       volume_above_avg |->
         IF "volume_above_avg" \in df.columns THEN df.volume_above_avg[k]
         ELSE "NaN" ]]

EmptyFrame == [columns |-> {}, rows |-> << >>]
\* Concat that drops what was accumulated
Concat_replace(a, df) ==
  [columns |-> a.columns \cup df.columns, rows |-> Rows(df)]

\* pd.concat([a, df]): rows of a followed by those of df, union of the columns
Concat(a, df) ==
  [columns |-> a.columns \cup df.columns, rows |-> a.rows \o Rows(df)]

SymbolPath(s) == [kind |-> "symbol_data", symbol |-> s]
CombinedPath == [kind |-> "all_stocks_data", symbol |-> ""]
SummaryPath == [kind |-> "stock_summary", symbol |-> ""]
NoPath == [kind |-> "", symbol |-> ""]

\* ------------------------------------------------------------------ state
VARIABLES
  symbols,        \* the list passed to process_all_stocks
  pc,             \* position in process_all_stocks
  i,              \* fetch_data: index of the next entry of symbols
  stock_data,     \* fetch_data's dict, then the dict process_all_stocks holds
  log,            \* the messages printed for skipped and fetched symbols
  calls,          \* calls to the fetch collaborator and the engine, in order
  j,              \* process_all_stocks: index of the next item of stock_data
  all_stocks_df,  \* the combined table being accumulated
  written,        \* paths of the files written so far, in order
  out_tables,     \* contents of the per-symbol files written
  combined_out,   \* contents of the combined file, once written
  summary_rows,   \* create_summary_table's rows
  failed,         \* the path whose write raised, NoPath if none
  e_pc, e_df, e_fault, e_res,   \* one call of add_technical_indicators
  s_pc, s_data, s_rows          \* one call of create_summary_table's loop

batchVars == << symbols, pc, i, stock_data, log, calls, j, all_stocks_df,
                written, out_tables, combined_out, summary_rows, failed >>
engineVars == << e_pc, e_df, e_fault, e_res >>
summaryVars == << s_pc, s_data, s_rows >>
vars == << batchVars, engineVars, summaryVars >>

SymbolLists == UNION {[1..n -> Symbols] : n \in 0..MaxSyms}
BatchTails == {[k \in 1..TailLen |-> 3]}
\* where the library raises in a batch run: nowhere, at the first statement,
\* at the first join, at the last statement
BatchFaults == {0, 1, 2, NSteps}

\* what one call of the fetch collaborator can do: raise, or return a table
\* of zero or more rows
FetchOutcomes(no) ==
  {[raised |-> TRUE, df |-> History(0, << >>, << >>, no)]}
  \cup {[raised |-> FALSE,
         df |-> History(n, CloseSeries(n, t), VolSeries(n, t), no)] :
          n \in {0} \cup BatchRows, t \in BatchTails}

NoResult == [ret |-> History(0, << >>, << >>, 0),
             arg |-> History(0, << >>, << >>, 0), raised |-> FALSE]

EngineIdle ==
  /\ e_pc = "idle" /\ e_fault = 0
  /\ e_df = History(0, << >>, << >>, 0) /\ e_res = NoResult
SummaryIdle == s_pc = "idle" /\ s_data = << >> /\ s_rows = << >>
BatchIdle ==
  /\ symbols = << >> /\ pc = "idle" /\ i = 1 /\ stock_data = << >>
  /\ log = << >> /\ calls = << >> /\ j = 1 /\ all_stocks_df = EmptyFrame
  /\ written = << >> /\ out_tables = << >> /\ combined_out = EmptyFrame
  /\ summary_rows = << >> /\ failed = NoPath

\* ------------------------------------------------------------ batch run
Init ==
  /\ symbols \in SymbolLists
  /\ pc = "fetch" /\ i = 1 /\ stock_data = << >>
  /\ log = << >> /\ calls = << >> /\ j = 1 /\ all_stocks_df = EmptyFrame
  /\ written = << >> /\ out_tables = << >> /\ combined_out = EmptyFrame
  /\ summary_rows = << >> /\ failed = NoPath
  /\ EngineIdle /\ SummaryIdle

Call(op, symbol, outcome) == [op |-> op, symbol |-> symbol, outcome |-> outcome]
Msg(text, symbol) == [msg |-> text, symbol |-> symbol]

\* FetchStore without the df.empty test of line 35
FetchStore_keepEmpty(sd, symbol, r) ==
  IF r.raised THEN sd ELSE DictSet(sd, symbol, Prepare(r.df, symbol))

\* the dict after one iteration of the loop of lines 29-49
FetchStore(sd, symbol, r) ==
  IF r.raised \/ Empty(r.df) THEN sd
  ELSE DictSet(sd, symbol, Prepare(r.df, symbol))

FetchLog(symbol, r) ==
  IF r.raised THEN << Msg("Error fetching data", symbol) >>
  ELSE IF Empty(r.df) THEN << Msg("No data found", symbol) >>
  ELSE << Msg("Successfully fetched data", symbol) >>

FetchOutcome(r) ==
  IF r.raised THEN "error" ELSE IF Empty(r.df) THEN "empty" ELSE "ok"

\* lines 29-49: one iteration of fetch_data's loop
FetchOne ==
  /\ pc = "fetch" /\ i <= Len(symbols)
  /\ \E r \in FetchOutcomes(i) :
       /\ stock_data' = FetchStore(stock_data, symbols[i], r)
       /\ log' = log \o << Msg("Fetching data", symbols[i]) >>
                     \o FetchLog(symbols[i], r)
       /\ calls' = Append(calls, Call("fetch", symbols[i], FetchOutcome(r)))
  /\ i' = i + 1
  /\ UNCHANGED << symbols, pc, j, all_stocks_df, written, out_tables,
                  combined_out, summary_rows, failed >>
  /\ UNCHANGED << engineVars, summaryVars >>

\* lines 51, 111-112: fetch_data returns, the combined table starts empty
FetchReturn ==
  /\ pc = "fetch" /\ i > Len(symbols)
  /\ pc' = "process" /\ j' = 1 /\ all_stocks_df' = EmptyFrame
  /\ UNCHANGED << symbols, i, stock_data, log, calls, written, out_tables,
                  combined_out, summary_rows, failed >>
  /\ UNCHANGED << engineVars, summaryVars >>

\* lines 114-121: one iteration of the loop over stock_data.items(); to_csv
\* is not guarded, so a write that raises leaves process_all_stocks
ProcessOne ==
  /\ pc = "process" /\ j <= Len(stock_data)
  /\ \E fault \in BatchFaults, ok \in BOOLEAN :
       LET symbol == stock_data[j].key
           r == add_technical_indicators(stock_data[j].df, fault)
       IN /\ stock_data' = [stock_data EXCEPT ![j].df = r.arg]
          /\ calls' = Append(calls, Call("indicators", symbol,
                                        IF r.raised THEN "error" ELSE "ok"))
          /\ IF ok
             THEN /\ written' = Append(written, SymbolPath(symbol))
                  /\ out_tables' = Append(out_tables,
                                          [key |-> symbol, df |-> r.ret])
                  /\ all_stocks_df' = Concat(all_stocks_df, r.ret)
                  /\ j' = j + 1
                  /\ UNCHANGED << pc, failed >>
             ELSE /\ pc' = "aborted" /\ failed' = SymbolPath(symbol)
                  /\ UNCHANGED << written, out_tables, all_stocks_df, j >>
  /\ UNCHANGED << symbols, i, log, combined_out, summary_rows >>
  /\ UNCHANGED << engineVars, summaryVars >>

\* lines 123-126: the combined file
WriteCombined ==
  /\ pc = "process" /\ j > Len(stock_data)
  /\ \E ok \in BOOLEAN :
       IF ok
       THEN /\ written' = Append(written, CombinedPath)
            /\ combined_out' = all_stocks_df
            /\ pc' = "summary"
            /\ UNCHANGED failed
       ELSE /\ pc' = "aborted" /\ failed' = CombinedPath
            /\ UNCHANGED << written, combined_out >>
  /\ UNCHANGED << symbols, i, stock_data, log, calls, j, all_stocks_df,
                  out_tables, summary_rows >>
  /\ UNCHANGED << engineVars, summaryVars >>

\* CreateSummaryTable without the test of line 166
CreateSummaryTable_always ==
  /\ pc = "summary"
  /\ summary_rows' = SummaryRows(stock_data, Len(stock_data))
  /\ \E ok \in BOOLEAN :
       IF ok
       THEN /\ written' = Append(written, SummaryPath)
            /\ pc' = "done"
            /\ UNCHANGED failed
       ELSE /\ pc' = "aborted" /\ failed' = SummaryPath
            /\ UNCHANGED written
  /\ UNCHANGED << symbols, i, stock_data, log, calls, j, all_stocks_df,
                  out_tables, combined_out >>
  /\ UNCHANGED << engineVars, summaryVars >>

\* lines 128-130, 134-170: create_summary_table, then the return
CreateSummaryTable ==
  /\ pc = "summary"
  /\ LET rows == SummaryRows(stock_data, Len(stock_data)) IN
     /\ summary_rows' = rows
     /\ IF rows # << >>
        THEN \E ok \in BOOLEAN :
               IF ok
               THEN /\ written' = Append(written, SummaryPath)
                    /\ pc' = "done"
                    /\ UNCHANGED failed
               ELSE /\ pc' = "aborted" /\ failed' = SummaryPath
                    /\ UNCHANGED written
        ELSE /\ pc' = "done"
             /\ UNCHANGED << written, failed >>
  /\ UNCHANGED << symbols, i, stock_data, log, calls, j, all_stocks_df,
                  out_tables, combined_out >>
  /\ UNCHANGED << engineVars, summaryVars >>

Next == FetchOne \/ FetchReturn \/ ProcessOne \/ WriteCombined
          \/ CreateSummaryTable

Spec == Init /\ [][Next]_vars

\* ------------------------------------------ one call of the Indicator Engine
InitEngine ==
  /\ e_pc = "call"
  /\ \E n \in 1..MaxRows, t \in Tails :
       e_df = Prepare(History(n, CloseSeries(n, t), VolSeries(n, t), 1),
                      "AAPL")
  /\ e_fault \in 0..NSteps
  /\ e_res = NoResult
  /\ BatchIdle /\ SummaryIdle

\* line 115: the call; e_df stays the table as it was before the call
CallEngine ==
  /\ e_pc = "call"
  /\ e_res' = add_technical_indicators(e_df, e_fault)
  /\ e_pc' = "returned"
  /\ UNCHANGED << e_df, e_fault, batchVars, summaryVars >>

NextEngine == CallEngine

SpecEngine == InitEngine /\ [][NextEngine]_vars

\* --------------------------------------- one call of the Summary Aggregator
CloseLists == UNION {[1..n -> Prices] : n \in 0..MaxCloseLen}

InitSummary ==
  /\ s_pc = "call"
  /\ \E c \in CloseLists, s \in Symbols :
       s_data = << [key |-> s,
                    df |-> Prepare(History(Len(c), c,
                                           [k \in 1..Len(c) |-> BaseVol], 1),
                                   s)] >>
  /\ s_rows = << >>
  /\ BatchIdle /\ EngineIdle

\* lines 134-164 over a dict of one table
CallSummary ==
  /\ s_pc = "call"
  /\ s_rows' = SummaryRows(s_data, Len(s_data))
  /\ s_pc' = "returned"
  /\ UNCHANGED << s_data, batchVars, engineVars >>

NextSummary == CallSummary

SpecSummary == InitSummary /\ [][NextSummary]_vars

\* =================================================================== claims
FetchCallIdx == {k \in 1..Len(calls) : calls[k].op = "fetch"}
OkIdx == {k \in FetchCallIdx : calls[k].outcome = "ok"}
FailedIdx == FetchCallIdx \ OkIdx
OkSyms == {calls[k].symbol : k \in OkIdx}
\* symbols that were fetched and for which no fetch returned rows
SkippedSyms == {calls[k].symbol : k \in FailedIdx} \ OkSyms
SkipMsgs == {"Error fetching data", "No data found"}
RowSyms(rows) == {rows[k].symbol : k \in 1..Len(rows)}
SummarySyms == {summary_rows[k].symbol : k \in 1..Len(summary_rows)}
PathSet == {written[k] : k \in 1..Len(written)}
InResults(s) ==
  \/ s \in Keys(stock_data) \/ s \in Keys(out_tables)
  \/ s \in RowSyms(all_stocks_df.rows) \/ s \in RowSyms(combined_out.rows)
  \/ s \in SummarySyms \/ SymbolPath(s) \in PathSet

\* C1: a symbol whose fetch raises or returns zero rows is skipped and logged,
\* never aborts the batch (the fetch loop reaches the end of the list and the
\* run only ever stops on a write that raised), and appears in no result; the
\* symbols that were fetched appear in every result of a run that returns.
C1_FetchFailureSkipped ==
  /\ \A s \in SkippedSyms : ~InResults(s)
  /\ \A k \in FailedIdx :
       \E m \in 1..Len(log) :
         log[m].symbol = calls[k].symbol /\ log[m].msg \in SkipMsgs
  /\ Cardinality({m \in 1..Len(log) : log[m].msg \in SkipMsgs})
       = Cardinality(FailedIdx)
  /\ pc = "fetch" => Cardinality(FetchCallIdx) = i - 1
  /\ pc # "fetch" => Cardinality(FetchCallIdx) = Len(symbols)
  /\ pc = "aborted" => failed # NoPath
  /\ pc # "fetch" => Keys(stock_data) = OkSyms
  /\ pc = "done" =>
       /\ Keys(out_tables) = OkSyms
       /\ RowSyms(combined_out.rows) = OkSyms
       /\ SummarySyms = OkSyms

\* a run that returned, in which a fetch raised, another returned no rows and
\* a later one succeeded
C1_Witness ==
  /\ pc = "done"
  /\ \E a, b, c \in 1..Len(calls) :
       /\ a < c /\ b < c
       /\ calls[a].op = "fetch" /\ calls[a].outcome = "error"
       /\ calls[b].op = "fetch" /\ calls[b].outcome = "empty"
       /\ calls[c].op = "fetch" /\ calls[c].outcome = "ok"
       /\ calls[a].symbol # calls[c].symbol
       /\ calls[c].symbol \in Keys(out_tables)
       /\ calls[a].symbol \notin Keys(out_tables)

RECURSIVE FlatRows(_, _)
FlatRows(ts, k) ==
  IF k = 0 THEN << >> ELSE FlatRows(ts, k - 1) \o Rows(ts[k].df)

\* C2: a run that returns has exactly one per-symbol table and one summary row
\* for each successfully fetched symbol, none for the others, and its combined
\* table is the concatenation of those symbols' enriched tables.
C2_OneTablePerFetchedSymbol ==
  pc = "done" =>
    /\ Len(out_tables) = Cardinality(OkSyms)
    /\ Keys(out_tables) = OkSyms
    /\ Len(summary_rows) = Cardinality(OkSyms)
    /\ SummarySyms = OkSyms
    /\ \A k \in 1..Len(out_tables) :
         /\ out_tables[k].df.symbol = out_tables[k].key
         /\ stock_data[k].key = out_tables[k].key
         /\ out_tables[k].df.close = stock_data[k].df.close
         /\ out_tables[k].df.fetch_no = stock_data[k].df.fetch_no
    /\ combined_out.rows = FlatRows(out_tables, Len(out_tables))
    /\ Cardinality(OkSyms) = 1 => combined_out.rows = Rows(out_tables[1].df)

\* two symbols succeeded and one fetch failed
C2_Witness ==
  /\ pc = "done"
  /\ FailedIdx # {}
  /\ Len(out_tables) = 2
  /\ Len(combined_out.rows) =
       NRows(out_tables[1].df) + NRows(out_tables[2].df)

\* C3: when a statement of the engine raises, the engine returns the table it
\* was given, without any derived column.
C3_Claim ==
  (e_pc = "returned" /\ e_res.raised) =>
    /\ e_res.ret.columns \cap DerivedColumns = {}
    /\ e_res.ret = e_df

ExpectedPaths ==
  {SymbolPath(s) : s \in Keys(stock_data)} \cup {CombinedPath}
    \cup (IF stock_data # << >> THEN {SummaryPath} ELSE {})

\* C4: when one write fails, every other output file of the run is written.
C4_Claim ==
  pc = "aborted" => ExpectedPaths \ {failed} \subseteq PathSet

\* C5: the table passed to the engine has the same columns and values after
\* the call as before.
C5_Claim ==
  e_pc = "returned" => e_res.arg = e_df

\* C6: in the enriched table volume_above_avg is True iff volume exceeds
\* volume_sma_20, False when equal or below, and undefined where
\* volume_sma_20 is undefined.
C6_Claim ==
  (e_pc = "returned" /\ ~e_res.raised) =>
    \A k \in 1..NRows(e_res.ret) :
      LET t == e_res.ret IN
      IF IsNaN(t.volume_sma_20[k])
      THEN t.volume_above_avg[k] = "NaN"
      ELSE t.volume_above_avg[k] =
             PyBool(t.volume[k] * VolSmaLength
                      > SumRange(t.volume, k - VolSmaLength + 1, k))

SummIn == s_data[1].df
\* C7: daily_change_pct is 0 for a table of fewer than 2 rows, and otherwise
\* (last close - second-to-last close) / second-to-last close * 100.
C7_DailyChangePct ==
  (s_pc = "returned" /\ NRows(SummIn) > 0) =>
    LET c == SummIn.close
        n == Len(c)
        q == s_rows[1].daily_change_pct
    IN /\ Len(s_rows) = 1
       /\ q.den # 0
       /\ n < 2 => q.num = 0
       /\ n >= 2 => q.num * c[n - 1] = (c[n] - c[n - 1]) * 100 * q.den

\* a single-row table was summarised
C7_Witness ==
  /\ s_pc = "returned" /\ NRows(SummIn) = 1
  /\ Len(s_rows) = 1 /\ s_rows[1].daily_change_pct.num = 0

SeqRange(c) == {c[k] : k \in 1..Len(c)}
\* C8: last_price is the close of the final row, period_high and period_low
\* the maximum and minimum close of the table, pct_from_high / pct_from_low =
\* (last_price - extremum) / extremum * 100; closes [100, 105, 95, 110] give
\* 110, 95, 110 and pct_from_high = 0.
C8_SummaryExtrema ==
  (s_pc = "returned" /\ NRows(SummIn) > 0) =>
    LET c == SummIn.close
        r == s_rows[1]
    IN /\ Len(s_rows) = 1
       /\ r.last_price = c[Len(c)]
       /\ r.week_52_high \in SeqRange(c)
       /\ \A x \in SeqRange(c) : x <= r.week_52_high
       /\ r.week_52_low \in SeqRange(c)
       /\ \A x \in SeqRange(c) : x >= r.week_52_low
       /\ r.pct_from_high.den # 0 /\ r.pct_from_low.den # 0
       /\ r.pct_from_high.num * r.week_52_high
            = (r.last_price - r.week_52_high) * 100 * r.pct_from_high.den
       /\ r.pct_from_low.num * r.week_52_low
            = (r.last_price - r.week_52_low) * 100 * r.pct_from_low.den
       /\ c = << 100, 105, 95, 110 >> =>
            /\ r.week_52_high = 110 /\ r.week_52_low = 95
            /\ r.last_price = 110 /\ r.pct_from_high.num = 0
            /\ r.pct_from_low.num * 95 = 1500 * r.pct_from_low.den

C8_Witness ==
  /\ s_pc = "returned" /\ SummIn.close = << 100, 105, 95, 110 >>
  /\ Len(s_rows) = 1 /\ s_rows[1].week_52_high = 110

\* C9: a run that returns has written the combined file, also when nothing
\* was fetched, and the summary file iff there is a summary row; the summary
\* file is never written before the combined file.
C9_CombinedAlwaysSummaryIfRows ==
  /\ pc = "done" =>
       /\ CombinedPath \in PathSet
       /\ SummaryPath \in PathSet <=> summary_rows # << >>
       /\ summary_rows # << >> <=> OkSyms # {}
  /\ \A k \in 1..Len(written) :
       written[k] = SummaryPath =>
         \E m \in 1..(k - 1) : written[m] = CombinedPath

\* a run over a non-empty list in which no fetch succeeded
C9_Witness ==
  /\ pc = "done" /\ Len(symbols) > 0 /\ OkSyms = {}
  /\ CombinedPath \in PathSet /\ SummaryPath \notin PathSet

LastOk(s) ==
  CHOOSE k \in OkIdx :
    calls[k].symbol = s /\ \A m \in OkIdx : calls[m].symbol = s => m <= k
Distinct(d) == \A a, b \in 1..Len(d) : d[a].key = d[b].key => a = b

\* C10: the fetch collaborator is called once per entry of the list, in list
\* order, and every fetch precedes every indicator computation; a symbol
\* listed more than once is fetched once per occurrence and yields at most one
\* table and one summary row, from its last successful fetch.
C10_FetchOncePerEntryInOrder ==
  /\ \A k \in FetchCallIdx : k <= Len(symbols) /\ calls[k].symbol = symbols[k]
  /\ FetchCallIdx = 1..(IF pc = "fetch" THEN i - 1 ELSE Len(symbols))
  /\ \A k \in 1..Len(calls) :
       calls[k].op = "indicators" => \A m \in FetchCallIdx : m < k
  /\ Distinct(stock_data) /\ Distinct(out_tables)
  /\ \A a, b \in 1..Len(summary_rows) :
       summary_rows[a].symbol = summary_rows[b].symbol => a = b
  /\ \A p \in 1..Len(stock_data) :
       stock_data[p].df.fetch_no = LastOk(stock_data[p].key)
  /\ \A p \in 1..Len(out_tables) :
       out_tables[p].df.fetch_no = LastOk(out_tables[p].key)

\* a symbol listed twice, fetched successfully twice; its table is the second
C10_Witness ==
  /\ pc = "done"
  /\ \E a, b \in OkIdx :
       /\ a < b /\ symbols[a] = symbols[b]
       /\ \E p \in 1..Len(out_tables) :
            out_tables[p].key = symbols[b] /\ out_tables[p].df.fetch_no = b
       /\ Cardinality({k \in FetchCallIdx : calls[k].symbol = symbols[a]}) >= 2

====
